---- MODULE Spec2Model ----
(***************************************************************************)
(* Model of the HALO AEB tracing call sites: the three pipeline stage      *)
(* functions (process_camera_frame, plan, execute_control), the clock      *)
(* helper get_monotonic_ns and the LTTng event declarations of             *)
(* halo_tracepoints.h.  Producer threads call the stage functions in any   *)
(* order and interleave at the two points the code exposes for every       *)
(* tracepoint statement: the evaluation of the get_monotonic_ns()          *)
(* argument, and the emission of the event itself.  The tracing session is *)
(* taken to be active, so that a tracepoint statement records its event.   *)
(***************************************************************************)
EXTENDS Integers, Sequences, FiniteSets, TLC

\* ---------------------------------------------------------------- bounds
\* Calls made in a run with several frames, calls made in a run that follows
\* one frame through the pipeline, and the largest clock reading.
MaxCalls == 2

MaxFrameCalls == 3

MaxClock == 1

Threads == {1, 2}

Frames == {1, 2}

\* A float brake_pressure is kept as a class and, when finite and in the
\* range of int32_t, its value in halves (-5 is -2.5).
Pressures ==
    { [cls |-> "finite", halves |-> -5],
      [cls |-> "finite", halves |-> 0],
      [cls |-> "out_of_range", halves |-> 0] }

NoPressure == [cls |-> "finite", halves |-> 0]

INT32_MAX == 2147483647

INT32_MIN == (-2147483647) - 1

VARIABLES
    steady,          \* the last value std::chrono::steady_clock::now() returned
    fn,              \* fn[t]: the stage function thread t is running
    pc,              \* pc[t]: index of the current statement of fn[t]
    frame_id,        \* frame_id[t]: the frame_id argument of the call
    brake_pressure,  \* brake_pressure[t]: the float argument of the call
    arg,             \* arg[t]: <<>> or <<v>>, the evaluated clock argument
    trace,           \* events in the order they were emitted
    calls,           \* history of the calls made, in call order
    harness          \* the frames the callers work on and how many calls they make

vars == <<steady, fn, pc, frame_id, brake_pressure, arg, trace, calls, harness>>

\* ------------------------------------------------------ event declarations
\* TRACEPOINT_EVENT(halo, <kind>, TP_ARGS(...), TP_FIELDS(...)): the argument
\* names, and for each field its C type, its name and the argument it reads.
U64Field(n) == [type |-> "uint64_t", name |-> n, from |-> n]

FrameEventDecl ==
    [args |-> <<"frame_id", "ts_ns">>,
     fields |-> <<U64Field("frame_id"), U64Field("ts_ns")>>]

BrakeEventDecl ==
    [args |-> <<"frame_id", "ts_ns", "pressure">>,
     fields |-> <<U64Field("frame_id"), U64Field("ts_ns"),
                  [type |-> "int32_t", name |-> "pressure_bar", from |-> "pressure"]>>]

SpanEventDecl ==
    [args |-> <<"name">>,
     fields |-> <<[type |-> "string", name |-> "task_name", from |-> "name"]>>]

\* A variant in which brake_actuate is declared like the other frame events.
EventSchema_brake_without_pressure ==
    [camera_ingest    |-> FrameEventDecl,
     perception_start |-> FrameEventDecl,
     perception_end   |-> FrameEventDecl,
     planning_start   |-> FrameEventDecl,
     planning_end     |-> FrameEventDecl,
     control_output   |-> FrameEventDecl,
     brake_actuate    |-> FrameEventDecl,
     npu_task_begin   |-> SpanEventDecl,
     npu_task_end     |-> SpanEventDecl]

EventSchema ==
    [camera_ingest    |-> FrameEventDecl,
     perception_start |-> FrameEventDecl,
     perception_end   |-> FrameEventDecl,
     planning_start   |-> FrameEventDecl,
     planning_end     |-> FrameEventDecl,
     control_output   |-> FrameEventDecl,
     brake_actuate    |-> BrakeEventDecl,
     npu_task_begin   |-> SpanEventDecl,
     npu_task_end     |-> SpanEventDecl]

EventKinds == DOMAIN EventSchema

ArgIndex(decl, n) == CHOOSE i \in 1..Len(decl.args) : decl.args[i] = n

\* tracepoint(halo, kind, argv...): the record the probe writes, one value
\* per declared field, read from the argument the field names.
tracepoint(kind, argv) ==
    LET decl == EventSchema[kind] IN
    [kind |-> kind,
     fields |-> [i \in 1..Len(decl.fields) |->
                   [type |-> decl.fields[i].type,
                    name |-> decl.fields[i].name,
                    value |-> argv[ArgIndex(decl, decl.fields[i].from)]]]]

HasField(e, n) == \E i \in 1..Len(e.fields) : e.fields[i].name = n

Field(e, n) == e.fields[CHOOSE i \in 1..Len(e.fields) : e.fields[i].name = n].value

\* ------------------------------------------------------------------ clock
\* A variant that reads the system clock, which can be set back.
get_monotonic_ns_system_clock(last) == 0..MaxClock

\* The values a reading of the clock can return after one that returned
\* last: steady_clock never goes back, and at most MaxClock is read.
get_monotonic_ns(last) == last..MaxClock

\* static_cast<int32_t>(brake_pressure): truncation toward zero when the
\* value is representable; otherwise the behaviour is undefined and the
\* result is whatever the target's conversion instruction leaves.
StaticCastInt32(p) ==
    IF p.cls = "finite"
    THEN {IF p.halves >= 0 THEN p.halves \div 2 ELSE -((-p.halves) \div 2)}
    ELSE {INT32_MIN, INT32_MAX}

\* ------------------------------------------------------- stage functions
Tp(k) == [op |-> "tracepoint", kind |-> k]

CallTo(c) == [op |-> "call", callee |-> c]

\* A variant that closes the perception bracket before detect_objects runs.
process_camera_frame_end_before_detect ==
    << Tp("camera_ingest"),
       Tp("perception_start"),
       Tp("perception_end"),
       CallTo("detect_objects") >>

process_camera_frame ==
    << Tp("camera_ingest"),
       Tp("perception_start"),
       CallTo("detect_objects"),
       Tp("perception_end") >>

\* Variants of plan: the two events exchanged; no planning_end.
plan_events_exchanged ==
    << Tp("planning_end"),
       CallTo("compute_trajectory"),
       Tp("planning_start") >>

plan_without_end ==
    << Tp("planning_start"),
       CallTo("compute_trajectory") >>

plan ==
    << Tp("planning_start"),
       CallTo("compute_trajectory"),
       Tp("planning_end") >>

\* A variant that reports no brake_actuate when no braking is asked for.
execute_control_brake_when_positive(p) ==
    IF p.cls = "finite" /\ p.halves <= 0
    THEN << Tp("control_output") >>
    ELSE << Tp("control_output"), Tp("brake_actuate") >>

execute_control(p) ==
    << Tp("control_output"),
       Tp("brake_actuate") >>

Body(t) ==
    CASE fn[t] = "process_camera_frame" -> process_camera_frame
      [] fn[t] = "plan" -> plan
      [] fn[t] = "execute_control" -> execute_control(brake_pressure[t])
      [] OTHER -> <<>>

Running(t) == fn[t] # "idle"

Stmt(t) == Body(t)[pc[t]]

\* The stubs: detect_objects has an empty body; compute_trajectory is only
\* called, never defined, and is taken to return without emitting.
detect_objects(tr) == tr

compute_trajectory(tr) == tr

CallOf(t) == CHOOSE c \in 1..Len(calls) : calls[c].tid = t /\ ~calls[c].done

\* ------------------------------------------------------------------- Init
Start(h) ==
    /\ steady = 0
    /\ fn = [t \in Threads |-> "idle"]
    /\ pc = [t \in Threads |-> 1]
    /\ frame_id = [t \in Threads |-> 1]
    /\ brake_pressure = [t \in Threads |-> NoPressure]
    /\ arg = [t \in Threads |-> <<>>]
    /\ trace = <<>>
    /\ calls = <<>>
    /\ harness = h

Init == Start([frames |-> Frames, maxCalls |-> MaxCalls])

\* One frame followed through the pipeline, by either thread.
FrameInit == Start([frames |-> {1}, maxCalls |-> MaxFrameCalls])

\* ---------------------------------------------------------------- actions
\* Whether the calls made so far for frame f, followed by a call of name,
\* follow the pipeline: every earlier call for f has returned, and they are
\* process_camera_frame, plan, execute_control, once each, in that order.
Pipeline == <<"process_camera_frame", "plan", "execute_control">>

CallsFor(f) == SelectSeq(calls, LAMBDA c : c.frame_id = f)

InPipelineOrder(name, f) ==
    LET prev == CallsFor(f) IN
    /\ Len(prev) < Len(Pipeline)
    /\ Pipeline[Len(prev) + 1] = name
    /\ \A i \in 1..Len(prev) : prev[i].done /\ prev[i].ordered

Enter(t, name, f, p) ==
    /\ ~Running(t)
    /\ f \in harness.frames
    /\ Len(calls) < harness.maxCalls
    /\ fn' = [fn EXCEPT ![t] = name]
    /\ pc' = [pc EXCEPT ![t] = 1]
    /\ frame_id' = [frame_id EXCEPT ![t] = f]
    /\ brake_pressure' = [brake_pressure EXCEPT ![t] = p]
    /\ calls' = Append(calls, [fn |-> name, frame_id |-> f, tid |-> t,
                               done |-> FALSE,
                               ordered |-> InPipelineOrder(name, f)])
    /\ UNCHANGED <<steady, arg, trace, harness>>

CallProcessCameraFrame(t, f) == Enter(t, "process_camera_frame", f, NoPressure)

CallPlan(t, f) == Enter(t, "plan", f, NoPressure)

CallExecuteControl(t, f, p) == Enter(t, "execute_control", f, p)

\* Move past the current statement; past the last one the function returns.
Advance(t) ==
    IF pc[t] < Len(Body(t))
    THEN /\ pc' = [pc EXCEPT ![t] = pc[t] + 1]
         /\ UNCHANGED <<fn, frame_id, brake_pressure, calls>>
    ELSE /\ pc' = [pc EXCEPT ![t] = 1]
         /\ fn' = [fn EXCEPT ![t] = "idle"]
         /\ frame_id' = [frame_id EXCEPT ![t] = 1]
         /\ brake_pressure' = [brake_pressure EXCEPT ![t] = NoPressure]
         /\ calls' = [calls EXCEPT ![CallOf(t)].done = TRUE]

\* The get_monotonic_ns() argument of the tracepoint statement is evaluated.
EvalClockArg(t) ==
    /\ Running(t)
    /\ Stmt(t).op = "tracepoint"
    /\ arg[t] = <<>>
    /\ \E now \in get_monotonic_ns(steady) :
         /\ steady' = now
         /\ arg' = [arg EXCEPT ![t] = <<now>>]
    /\ UNCHANGED <<fn, pc, frame_id, brake_pressure, trace, calls, harness>>

\* A variant that passes the two uint64_t arguments in the other order.
TpArgv_exchanged(t, kind, cast) ==
    IF kind = "brake_actuate"
    THEN <<arg[t][1], frame_id[t], cast>>
    ELSE <<arg[t][1], frame_id[t]>>

\* The arguments the call sites pass to tracepoint().
TpArgv(t, kind, cast) ==
    IF kind = "brake_actuate"
    THEN <<frame_id[t], arg[t][1], cast>>
    ELSE <<frame_id[t], arg[t][1]>>

\* A variant that drops an event whose frame has no event of the stage before.
Emit_validating(t) ==
    /\ Running(t)
    /\ Stmt(t).op = "tracepoint"
    /\ arg[t] # <<>>
    /\ \E cast \in StaticCastInt32(brake_pressure[t]) :
         LET e == tracepoint(Stmt(t).kind, TpArgv(t, Stmt(t).kind, cast))
             StageBefore(kind) ==
                 CASE kind = "perception_start" -> "camera_ingest"
                   [] kind = "perception_end" -> "perception_start"
                   [] kind = "planning_start" -> "perception_end"
                   [] kind = "planning_end" -> "planning_start"
                   [] kind = "control_output" -> "planning_end"
                   [] kind = "brake_actuate" -> "control_output"
                   [] OTHER -> kind
         IN
         IF \/ StageBefore(e.kind) = e.kind
            \/ \E i \in 1..Len(trace) :
                  /\ trace[i].ev.kind = StageBefore(e.kind)
                  /\ trace[i].ev.fields[1].value = frame_id[t]
         THEN trace' = Append(trace, [ev |-> e, tid |-> t, call |-> CallOf(t)])
         ELSE trace' = trace
    /\ arg' = [arg EXCEPT ![t] = <<>>]
    /\ Advance(t)
    /\ UNCHANGED <<steady, harness>>

\* The event is written.  tid and call are history: which thread and which
\* call emitted the event.
Emit(t) ==
    /\ Running(t)
    /\ Stmt(t).op = "tracepoint"
    /\ arg[t] # <<>>
    /\ \E cast \in StaticCastInt32(brake_pressure[t]) :
         trace' = Append(trace,
                    [ev |-> tracepoint(Stmt(t).kind, TpArgv(t, Stmt(t).kind, cast)),
                     tid |-> t, call |-> CallOf(t)])
    /\ arg' = [arg EXCEPT ![t] = <<>>]
    /\ Advance(t)
    /\ UNCHANGED <<steady, harness>>

DetectObjects(t) ==
    /\ Running(t)
    /\ Stmt(t) = CallTo("detect_objects")
    /\ trace' = detect_objects(trace)
    /\ Advance(t)
    /\ UNCHANGED <<steady, arg, harness>>

ComputeTrajectory(t) ==
    /\ Running(t)
    /\ Stmt(t) = CallTo("compute_trajectory")
    /\ trace' = compute_trajectory(trace)
    /\ Advance(t)
    /\ UNCHANGED <<steady, arg, harness>>

ThreadStep(t) == EvalClockArg(t) \/ Emit(t) \/ DetectObjects(t) \/ ComputeTrajectory(t)

Next ==
    \/ \E t \in Threads, f \in Frames : CallProcessCameraFrame(t, f)
    \/ \E t \in Threads, f \in Frames : CallPlan(t, f)
    \/ \E t \in Threads, f \in Frames, p \in Pressures : CallExecuteControl(t, f, p)
    \/ \E t \in Threads : EvalClockArg(t)
    \/ \E t \in Threads : Emit(t)
    \/ \E t \in Threads : DetectObjects(t)
    \/ \E t \in Threads : ComputeTrajectory(t)

Spec == Init /\ [][Next]_vars

\* One frame, three calls.
FrameSpec == FrameInit /\ [][Next]_vars

\* A thread inside a stage function keeps running, and the stubs return.
FairSpec == Spec /\ \A t \in Threads : WF_vars(ThreadStep(t))

\* ------------------------------------------------------ reading the trace
CorrelatedKinds ==
    {"camera_ingest", "perception_start", "perception_end", "planning_start",
     "planning_end", "control_output", "brake_actuate"}

Fid(e) == Field(e.ev, "frame_id")

Ts(e) == Field(e.ev, "ts_ns")

Kinds(s) == [i \in 1..Len(s) |-> s[i].ev.kind]

IsPrefix(a, b) == Len(a) <= Len(b) /\ \A i \in 1..Len(a) : a[i] = b[i]

NonDecreasingTs(s) == \A i, j \in 1..Len(s) : i < j => Ts(s[i]) <= Ts(s[j])

EventsOfCall(c) == SelectSeq(trace, LAMBDA e : e.call = c)

EventsOfThread(t) == SelectSeq(trace, LAMBDA e : e.tid = t)

EventsOfFrame(f) == SelectSeq(trace, LAMBDA e : HasField(e.ev, "frame_id") /\ Fid(e) = f)

CallIds == 1..Len(calls)

\* ----------------------------------------------------------------- claims
\* C1: every event emitted during a call process_camera_frame(f, _), plan(f)
\* or execute_control(f, _) carries frame_id = f, and no other frame_id,
\* whatever calls for other frames run at the same time.
C1_CorrelationKey ==
    \A i \in 1..Len(trace) :
        /\ HasField(trace[i].ev, "frame_id")
        /\ Fid(trace[i]) = calls[trace[i].call].frame_id

\* Two calls with different frame_ids emitted interleaved events.
C1_Witness ==
    \E i, j, k \in 1..Len(trace) :
        /\ i < j /\ j < k
        /\ trace[i].call = trace[k].call
        /\ trace[i].call # trace[j].call
        /\ Fid(trace[i]) # Fid(trace[j])
        /\ Ts(trace[j]) # Fid(trace[j])

\* C2: a call process_camera_frame(f, frame) emits exactly camera_ingest(f),
\* perception_start(f), perception_end(f), once each, in that order, and
\* detect_objects runs after perception_start and before perception_end.
PerceptionEvents == <<"camera_ingest", "perception_start", "perception_end">>

C2_PerceptionSequence ==
    /\ \A c \in CallIds :
         calls[c].fn = "process_camera_frame" =>
            /\ IsPrefix(Kinds(EventsOfCall(c)), PerceptionEvents)
            /\ calls[c].done => Kinds(EventsOfCall(c)) = PerceptionEvents
            /\ \A i \in 1..Len(EventsOfCall(c)) :
                 Fid(EventsOfCall(c)[i]) = calls[c].frame_id
    /\ \A t \in Threads :
         (Running(t) /\ Stmt(t) = CallTo("detect_objects")) =>
            Kinds(EventsOfCall(CallOf(t))) = <<"camera_ingest", "perception_start">>

\* A call of process_camera_frame has returned while another call was under
\* way.
C2_Witness ==
    \E c \in CallIds :
        /\ calls[c].fn = "process_camera_frame"
        /\ calls[c].done
        /\ \E i, j, k \in 1..Len(trace) :
             /\ i < j /\ j < k
             /\ trace[i].call = c /\ trace[k].call = c /\ trace[j].call # c

\* C3: the events one producer thread emits, across its successive calls,
\* have non-decreasing ts_ns in emission order, whatever the other
\* producers do.
C3_PerProducerOrder ==
    \A t \in Threads : NonDecreasingTs(EventsOfThread(t))

\* A thread emitted events in two successive calls, with strictly growing
\* timestamps, around an event of the other thread.
C3_Witness ==
    \E i, j, k \in 1..Len(trace) :
        /\ i < j /\ j < k
        /\ trace[i].tid = trace[k].tid
        /\ trace[i].tid # trace[j].tid
        /\ trace[i].call # trace[k].call
        /\ Ts(trace[i]) < Ts(trace[k])
        /\ Ts(trace[j]) < Ts(trace[k])

\* C4 as stated: for every frame_id, the events carrying it appear in
\* pipeline stage order with non-decreasing timestamps, however the stage
\* functions are invoked for it.
StageOrder ==
    <<"camera_ingest", "perception_start", "perception_end", "planning_start",
      "planning_end", "control_output", "brake_actuate">>

Rank(k) == CHOOSE i \in 1..Len(StageOrder) : StageOrder[i] = k

InStageOrder(s) ==
    \A i, j \in 1..Len(s) : i < j => Rank(s[i].ev.kind) <= Rank(s[j].ev.kind)

C4_AnyInvocation ==
    \A f \in Frames : InStageOrder(EventsOfFrame(f)) /\ NonDecreasingTs(EventsOfFrame(f))

\* C4, amended: for every frame_id f whose calls are process_camera_frame(f),
\* plan(f), execute_control(f, _), at most once each, in that order, each
\* made after the previous one returned (on any thread), the events carrying
\* f are a prefix of the pipeline stage sequence, with non-decreasing
\* timestamps.
FollowsPipeline(f) == \A c \in CallIds : calls[c].frame_id = f => calls[c].ordered

C4_PipelineInvocation ==
    \A f \in Frames :
        FollowsPipeline(f) =>
            /\ IsPrefix(Kinds(EventsOfFrame(f)), StageOrder)
            /\ NonDecreasingTs(EventsOfFrame(f))

\* A frame went through the three stages in order, handed from one thread to
\* the other, and all seven events are in the trace.
C4_Witness ==
    \E f \in Frames :
        /\ FollowsPipeline(f)
        /\ Kinds(EventsOfFrame(f)) = StageOrder
        /\ \E i, j \in 1..Len(trace) : trace[i].tid # trace[j].tid
        /\ Ts(EventsOfFrame(f)[1]) < Ts(EventsOfFrame(f)[7])

\* C5: a call of get_monotonic_ns() that starts after another one returned,
\* on any thread, returns a value >= that one's; a thread that is to read the
\* clock can always do so.
Returned ==
    {Ts(trace[i]) : i \in 1..Len(trace)}
        \cup {arg[t][1] : t \in {u \in Threads : arg[u] # <<>>}}

C5_ClockMonotonic ==
    /\ [][\A t \in Threads :
             (arg[t] = <<>> /\ arg'[t] # <<>>) =>
                 \A v \in Returned : arg'[t][1] >= v]_vars
    /\ [](\A t \in Threads :
             (Running(t) /\ Stmt(t).op = "tracepoint" /\ arg[t] = <<>>) =>
                 ENABLED EvalClockArg(t))

\* Both threads hold a clock reading, and the readings differ.
C5_Witness ==
    /\ \A t \in Threads : arg[t] # <<>>
    /\ \E t, u \in Threads : arg[t][1] < arg[u][1]

\* C6: every correlated record has frame_id (u64) first, then ts_ns (u64);
\* brake_actuate, and only brake_actuate, has a third field pressure_bar
\* (i32); the npu_task_begin and npu_task_end records have the one field
\* task_name (string) and no frame_id.
TaskNames == {"npu_infer", ""}

IsU64Field(fld, n) == fld.name = n /\ fld.type = "uint64_t" /\ fld.value \in Nat

C6_CorrelatedShape(e) ==
    /\ e.kind \in CorrelatedKinds
    /\ Len(e.fields) >= 2
    /\ IsU64Field(e.fields[1], "frame_id")
    /\ IsU64Field(e.fields[2], "ts_ns")
    /\ IF e.kind = "brake_actuate"
       THEN /\ Len(e.fields) = 3
            /\ e.fields[3].name = "pressure_bar"
            /\ e.fields[3].type = "int32_t"
            /\ e.fields[3].value \in INT32_MIN..INT32_MAX
       ELSE Len(e.fields) = 2

C6_SpanShape(e) ==
    /\ Len(e.fields) = 1
    /\ e.fields[1].name = "task_name"
    /\ e.fields[1].type = "string"
    /\ ~HasField(e, "frame_id")

C6_SchemaShape ==
    /\ \A i \in 1..Len(trace) : C6_CorrelatedShape(trace[i].ev)
    /\ EventKinds \ CorrelatedKinds = {"npu_task_begin", "npu_task_end"}
    /\ \A k \in EventKinds \ CorrelatedKinds, n \in TaskNames :
         /\ C6_SpanShape(tracepoint(k, <<n>>))
         /\ tracepoint(k, <<n>>).fields[1].value = n

\* A brake_actuate record and a record of another kind were emitted, and the
\* timestamp and the frame_id of one record differ.
C6_Witness ==
    \E i, j \in 1..Len(trace) :
        /\ trace[i].ev.kind = "brake_actuate"
        /\ trace[i].ev.fields[3].value < 0
        /\ trace[j].ev.kind = "planning_end"
        /\ Fid(trace[j]) # Ts(trace[j])

\* C7: the stage functions emit their events unconditionally: called in any
\* order, again for the same frame_id, or for a frame_id no earlier stage
\* saw, a call is accepted, runs to its return without blocking, and has
\* then emitted all of its events unaltered.
ExpectedKinds(name) ==
    CASE name = "process_camera_frame" -> PerceptionEvents
      [] name = "plan" -> <<"planning_start", "planning_end">>
      [] name = "execute_control" -> <<"control_output", "brake_actuate">>

C7_NoCallOrderValidation ==
    /\ \A c \in CallIds :
         calls[c].done =>
            /\ Kinds(EventsOfCall(c)) = ExpectedKinds(calls[c].fn)
            /\ \A i \in 1..Len(EventsOfCall(c)) :
                 Fid(EventsOfCall(c)[i]) = calls[c].frame_id
    /\ \A t \in Threads :
         (~Running(t) /\ Len(calls) < harness.maxCalls) =>
            \A f \in harness.frames :
                /\ ENABLED CallProcessCameraFrame(t, f)
                /\ ENABLED CallPlan(t, f)
                /\ \A p \in Pressures : ENABLED CallExecuteControl(t, f, p)
    /\ \A t \in Threads : Running(t) => ENABLED ThreadStep(t)

\* execute_control(f, _) returned before anything else was called for f, and
\* plan(f) was called after it and returned too.
C7_Witness ==
    \E c, d \in CallIds :
        /\ c < d
        /\ calls[c].fn = "execute_control" /\ calls[c].done
        /\ calls[d].fn = "plan" /\ calls[d].done
        /\ calls[c].frame_id = calls[d].frame_id
        /\ Len(EventsOfFrame(calls[c].frame_id)) = 4

\* C8: the timestamp of an event is read in a step of its own, before the
\* event is emitted, so an event can be emitted after an event of another
\* producer that carries a larger timestamp; it is never emitted after such
\* an event of its own producer.
C8_NoCrossProducerOrder ==
    [][Len(trace') = Len(trace) + 1 =>
          LET e == trace'[Len(trace')] IN
          /\ arg[e.tid] # <<>>
          /\ Ts(e) = arg[e.tid][1]
          /\ Ts(e) <= steady
          /\ \A i \in 1..Len(trace) :
               Ts(trace[i]) > Ts(e) => trace[i].tid # e.tid]_vars

\* An event was emitted after an event with a larger timestamp.
C8_Witness ==
    \E i, j \in 1..Len(trace) :
        /\ i < j
        /\ Ts(trace[i]) > Ts(trace[j])
        /\ trace[i].tid # trace[j].tid

\* C9: a call execute_control(f, p) emits control_output(f) and then
\* brake_actuate(f), whatever p is, with non-decreasing timestamps; in a
\* producer's stream a control_output is followed at once by the
\* brake_actuate of the same call, or the call has not returned yet.
ControlEvents == <<"control_output", "brake_actuate">>

C9_ControlThenBrake ==
    /\ \A c \in CallIds :
         calls[c].fn = "execute_control" =>
            /\ IsPrefix(Kinds(EventsOfCall(c)), ControlEvents)
            /\ calls[c].done => Kinds(EventsOfCall(c)) = ControlEvents
            /\ NonDecreasingTs(EventsOfCall(c))
            /\ \A i \in 1..Len(EventsOfCall(c)) :
                 Fid(EventsOfCall(c)[i]) = calls[c].frame_id
    /\ \A t \in Threads :
         LET s == EventsOfThread(t) IN
         \A k \in 1..Len(s) :
            s[k].ev.kind = "control_output" =>
                IF k < Len(s)
                THEN /\ s[k + 1].ev.kind = "brake_actuate"
                     /\ s[k + 1].call = s[k].call
                     /\ Fid(s[k + 1]) = Fid(s[k])
                ELSE Running(t) /\ CallOf(t) = s[k].call

\* execute_control returned after emitting its two events around an event of
\* another call, and the pressure it reported is zero or negative.
C9_Witness ==
    \E i, j, k \in 1..Len(trace) :
        /\ i < j /\ j < k
        /\ trace[i].ev.kind = "control_output"
        /\ trace[k].ev.kind = "brake_actuate"
        /\ trace[i].call = trace[k].call
        /\ trace[j].call # trace[i].call
        /\ calls[trace[i].call].done
        /\ trace[k].ev.fields[3].value <= 0

\* C10: when the stubs return, a perception_start emitted by a call of
\* process_camera_frame is followed by one perception_end of the same call,
\* and a planning_start emitted by a call of plan by one planning_end of the
\* same call, with a timestamp not smaller; a call that has returned has
\* emitted as many end events as start events.
Positions(c, k) == {i \in 1..Len(trace) : trace[i].call = c /\ trace[i].ev.kind = k}

Bracket(c, start, end) ==
    /\ Cardinality(Positions(c, start)) <= 1
    /\ Cardinality(Positions(c, end)) <= Cardinality(Positions(c, start))
    /\ calls[c].done => Cardinality(Positions(c, end)) = Cardinality(Positions(c, start))
    /\ \A i \in Positions(c, start), j \in Positions(c, end) :
         i < j /\ Ts(trace[i]) <= Ts(trace[j])

Emitted(c, k) == c <= Len(calls) /\ Positions(c, k) # {}

C10_Balanced ==
    \A c \in CallIds :
        /\ Bracket(c, "perception_start", "perception_end")
        /\ Bracket(c, "planning_start", "planning_end")
        /\ calls[c].fn = "process_camera_frame" /\ calls[c].done
             => Emitted(c, "perception_start")
        /\ calls[c].fn = "plan" /\ calls[c].done => Emitted(c, "planning_start")

====
